---- MODULE Spec2Model ----
(***************************************************************************)
(* Model of thinker_chat.py: the chat loop of main_cli, its response       *)
(* classifier (thinking / stripping_newlines / streaming), the Spinner     *)
(* thread with its lock, the SIGINT handler and the alternate-screen exit  *)
(* hook.                                                                   *)
(*                                                                         *)
(* Text is a sequence of one-character strings.  A fragment is the text of *)
(* one response_chunk.  The spinner's glyph index i (thinker_chat.py:59,   *)
(* 69) only selects the glyph drawn and is not part of the state.          *)
(***************************************************************************)
EXTENDS Naturals, Sequences, FiniteSets

\* ------------------------------------------------------------------ bounds

\* Most pieces a generated text of the classifier specification is built of.
MaxPieces == 4

\* Most user turns a run of the session specification accepts.
MaxTurns == 2

\* ------------------------------------------------------------------- text

NL == "\n"

REPLACEMENT_CHAR == "U+FFFD"

\* The closing tag the loop waits for: "</think>".
Delim == <<"<", "/", "t", "h", "i", "n", "k", ">">>

\* The content of the assistant turn recorded after a fault.
ErrorSentinel == <<"[Error during generation]">>

\* str.replace(REPLACEMENT_CHAR, "?")
Replace(text) ==
    [i \in 1..Len(text) |-> IF text[i] = REPLACEMENT_CHAR THEN "?" ELSE text[i]]

\* s.startswith(p)
StartsWith(s, p) == Len(s) >= Len(p) /\ SubSeq(s, 1, Len(p)) = p

\* The 1-based positions at which "</think>" occurs in s.
Occurrences(s) ==
    {i \in 1..Len(s) : i + Len(Delim) - 1 <= Len(s)
                       /\ SubSeq(s, i, i + Len(Delim) - 1) = Delim}

\* "</think>" in s
HasTag(s) == Occurrences(s) # {}

\* s.find("</think>"), 1-based: the first occurrence.
Find(s) == CHOOSE i \in Occurrences(s) : \A j \in Occurrences(s) : i <= j

\* s[s.find("</think>") + len("</think>"):]
AfterTag(s) == SubSeq(s, Find(s) + Len(Delim), Len(s))

\* s[n:]
Drop(s, n) == SubSeq(s, n + 1, Len(s))

IsSpace(ch) == ch \in {" ", NL}

\* str.strip()
RECURSIVE LStrip(_)
LStrip(s) == IF s # <<>> /\ IsSpace(s[1]) THEN LStrip(Tail(s)) ELSE s

RECURSIVE RStrip(_)
RStrip(s) ==
    IF s # <<>> /\ IsSpace(s[Len(s)]) THEN RStrip(SubSeq(s, 1, Len(s) - 1)) ELSE s

Strip(s) == LStrip(RStrip(s))

\* ------------------------------------------------------------- classifier
\* The per-turn locals of main_cli: state, buffer,
\* assistant_full_response_text (acc), printed_something (printed); out is
\* the text the turn's print(..., end="") calls have written so far.

NewTurn ==
    [state |-> "thinking", buffer |-> <<>>, acc |-> <<>>,
     printed |-> FALSE, out |-> <<>>]

\* Accumulate, were only the text past the tag kept for the history.
Accumulate_VisibleOnly(c, frag) ==
    IF c.state = "thinking" THEN c ELSE [c EXCEPT !.acc = c.acc \o Replace(frag)]

\* token_text = response_chunk.text.replace(...); the full response grows.
Accumulate(c, frag) == [c EXCEPT !.acc = c.acc \o Replace(frag)]

\* state == "thinking": the fragment joins the buffer.
ThinkingAppend(c, frag) == [c EXCEPT !.buffer = c.buffer \o Replace(frag)]

\* TagTransition, were the buffer kept whole.
TagTransition_KeepAll(c) == [c EXCEPT !.state = "stripping_newlines"]

\* The tag is in the buffer: keep what follows it, go to stripping_newlines.
\* (The elif chain ends the iteration here: the remainder waits in buffer.)
TagTransition(c) ==
    [c EXCEPT !.buffer = AfterTag(c.buffer), !.state = "stripping_newlines"]

\* EmitBuffer, were printed_something not set.
EmitBuffer_NoFlag(c) ==
    [c EXCEPT !.out = c.out \o c.buffer, !.buffer = <<>>, !.state = "streaming"]

\* EmitBuffer, were the state left as it is.
EmitBuffer_NoTransition(c) ==
    [c EXCEPT !.out = c.out \o c.buffer, !.printed = TRUE, !.buffer = <<>>]

\* print(buffer, end="", flush=True); printed_something = True; buffer = "";
\* state = "streaming"
EmitBuffer(c) ==
    [c EXCEPT !.out = c.out \o c.buffer, !.printed = TRUE,
              !.buffer = <<>>, !.state = "streaming"]

\* One pass of the body of the while loop of stripping_newlines.
StripBody(c) ==
    IF StartsWith(c.buffer, <<NL, NL>>)
    THEN LET d == [c EXCEPT !.buffer = Drop(c.buffer, 2)]
         IN  IF d.buffer # <<>> THEN EmitBuffer(d) ELSE d
    ELSE IF StartsWith(c.buffer, <<NL>>)
    THEN LET d == [c EXCEPT !.buffer = Drop(c.buffer, 1)]
         IN  IF d.buffer # <<>> THEN EmitBuffer(d) ELSE d
    ELSE EmitBuffer(c)

\* while buffer and state == "stripping_newlines": ...
RECURSIVE StripLoop(_)
StripLoop(c) ==
    IF c.buffer # <<>> /\ c.state = "stripping_newlines"
    THEN StripLoop(StripBody(c))
    ELSE c

\* Stripping, were the loop run only for a fragment that is not empty.
Stripping_LoopInsideIf(c, frag) ==
    IF Replace(frag) = <<>> THEN c
    ELSE StripLoop([c EXCEPT !.buffer = c.buffer \o Replace(frag)])

\* state == "stripping_newlines": the fragment joins the buffer, then the loop.
Stripping(c, frag) == StripLoop([c EXCEPT !.buffer = c.buffer \o Replace(frag)])

\* state == "streaming": the fragment is printed if it is not empty.
Streaming(c, frag) ==
    IF Replace(frag) # <<>>
    THEN [c EXCEPT !.out = c.out \o Replace(frag), !.printed = TRUE]
    ELSE c

\* One iteration of the for loop over the generator, the stop of the spinner
\* at the tag left to the caller.
Iteration(c, frag) ==
    LET a == Accumulate(c, frag)
    IN  IF a.state = "thinking"
        THEN LET b == ThinkingAppend(a, frag)
             IN  IF HasTag(b.buffer) THEN TagTransition(b) ELSE b
        ELSE IF a.state = "stripping_newlines"
        THEN Stripping(a, frag)
        ELSE Streaming(a, frag)

\* EndNotice, were the two notices tested in the other order.
EndNotice_Swapped(c) ==
    IF c.printed THEN "newline"
    ELSE IF c.state = "thinking" THEN "only_newlines"
    ELSE IF c.state = "stripping_newlines" /\ c.buffer = <<>> THEN "stopped_before_tag"
    ELSE IF c.state = "stripping_newlines" /\ c.buffer # <<>> THEN "flush"
    ELSE "nothing"

\* What the code after the loop prints: the kind of output, and the text of
\* the flush (print(buffer, end="\n")); the line break that ends a print is
\* part of the kind, not of the text.
EndNotice(c) ==
    IF c.printed THEN "newline"
    ELSE IF c.state = "thinking" THEN "stopped_before_tag"
    ELSE IF c.state = "stripping_newlines" /\ c.buffer = <<>> THEN "only_newlines"
    ELSE IF c.state = "stripping_newlines" /\ c.buffer # <<>> THEN "flush"
    ELSE "nothing"

\* EndOfStream, were the leading line breaks of the flushed buffer stripped.
EndOfStream_Stripped(c) ==
    IF c.state = "stripping_newlines" /\ ~c.printed /\ c.buffer # <<>>
    THEN [c EXCEPT !.out = c.out \o LStrip(c.buffer)] ELSE c

\* The end-of-stream flush: print(buffer, end="\n") when the loop ended in
\* stripping_newlines with text in the buffer.
EndOfStream(c) ==
    IF EndNotice(c) = "flush" THEN [c EXCEPT !.out = c.out \o c.buffer] ELSE c

\* ------------------------------------------------------------------ inputs

\* The pieces a generated text is built of.
Pieces == {Delim, <<NL>>, <<"a">>, <<REPLACEMENT_CHAR>>}

\* The texts of at most n pieces.
RECURSIVE TextsOf(_)
TextsOf(n) ==
    IF n = 0 THEN {<<>>}
    ELSE LET S == TextsOf(n - 1) IN S \cup {s \o p : s \in S, p \in Pieces}

\* What the generator may produce in a turn of the classifier specification.
Texts == TextsOf(MaxPieces)

\* What the generator may produce in a turn of the session specification.
SessionTexts ==
    {<<"a">>, Delim \o <<NL, "a">>}

\* str.lower(), on the characters the input lines use.
LowerChar(ch) ==
    CASE ch = "Q" -> "q" [] ch = "U" -> "u" [] ch = "I" -> "i" [] ch = "T" -> "t"
      [] ch = "C" -> "c" [] ch = "L" -> "l" [] ch = "E" -> "e" [] ch = "A" -> "a"
      [] ch = "R" -> "r" [] OTHER -> ch

Lower(s) == [i \in 1..Len(s) |-> LowerChar(s[i])]

\* The lines a user may type in the session specification.
Lines ==
    {<<"q">>, <<"Q", "u", "i", "t">>, <<"/", "C", "l", "e", "a", "r", " ">>,
     <<>>, <<" ">>, <<"h", "i">>}

\* The line typed in the classifier specification.
ClassifierLines == {<<"h", "i">>}

\* ------------------------------------------------------------------- state

VARIABLES
    pc,                \* where the main thread is in main_cli
    status,            \* "running", or how the process ended
    alt_screen_active, \* the module flag
    enters, exits,     \* how often the enter and the exit sequence were written
    history,           \* the list of turns
    turns,             \* how many user lines were accepted as turns
    spinner,           \* main_cli's local: the Spinner of this turn (0: none yet)
    spinner_instance,  \* the module global (0: None)
    sp,                \* the Spinner objects, their threads and locks
    call,              \* the stop() call in progress of the main path and of the handler
    sig,               \* where the SIGINT handler is ("none": not running)
    cls,               \* the classifier locals of the turn
    src,               \* what the generator has yet to yield
    raw,               \* the concatenation of the fragments yielded in the turn
    notice,            \* what the code after the loop printed ("none": not yet)
    spun,              \* a spinner thread wrote after its turn's first output
    raised             \* stop() raised (self.thread was None at the join)

vars ==
    <<pc, status, alt_screen_active, enters, exits, history, turns, spinner,
      spinner_instance, sp, call, sig, cls, src, raw, notice, spun, raised>>

Spinners == 1..MaxTurns

Callers == {"main", "handler"}

\* Spinner.__init__; tpc is where the thread of _spin is; erases, joins and
\* stops count the erase sequences written, the joins made and the stop()
\* calls begun; wrote says the Spinner's turn has written visible text or its
\* end-of-stream output.
NewSpinner ==
    [running |-> FALSE, thread |-> FALSE, lock |-> "free", tpc |-> "unborn",
     erases |-> 0, joins |-> 0, stops |-> 0, wrote |-> FALSE]

NoCall == [pc |-> "idle", needs_join |-> FALSE, on |-> 0]

Init ==
    /\ pc = "load"
    /\ status = "running"
    /\ alt_screen_active = FALSE
    /\ enters = 0
    /\ exits = 0
    /\ history = <<>>
    /\ turns = 0
    /\ spinner = 0
    /\ spinner_instance = 0
    /\ sp = [k \in Spinners |-> NewSpinner]
    /\ call = [c \in Callers |-> NoCall]
    /\ sig = "none"
    /\ cls = NewTurn
    /\ src = <<>>
    /\ raw = <<>>
    /\ notice = "none"
    /\ spun = FALSE
    /\ raised = FALSE

\* The main thread runs: the process lives and no handler is on its stack.
MainRuns == status = "running" /\ sig = "none"

\* The thread of a Spinner is alive.
Alive(k) == sp[k].tpc \in {"check", "write", "erase"}

\* Interpreter exit: the atexit hook exit_alternate_screen runs, the daemon
\* threads of the Spinners in s end with the process.
Terminate(code, s) ==
    /\ status' = code
    /\ pc' = "exited"
    /\ alt_screen_active' = FALSE
    /\ exits' = IF alt_screen_active THEN exits + 1 ELSE exits
    /\ sp' = [k \in Spinners |->
                IF s[k].tpc \in {"check", "write", "erase"}
                THEN [s[k] EXCEPT !.tpc = "killed"] ELSE s[k]]

\* ------------------------------------------------------------ Spinner.stop

\* The call spinner.stop() begins, made by c on Spinner k.
BeginStop(c, k) ==
    /\ call' = [call EXCEPT ![c] = [pc |-> "acquire", needs_join |-> FALSE, on |-> k]]
    /\ sp' = [sp EXCEPT ![k].stops = @ + 1]

\* The thread of control of caller c is inside stop().
InStop(c) ==
    /\ status = "running"
    /\ IF c = "main"
       THEN sig = "none" /\ pc \in {"tag_stop", "eos_stop", "exc_stop"}
       ELSE sig = "stop"

\* with self.lock: entered once the lock is free.
StopAcquire(c) ==
    /\ InStop(c)
    /\ call[c].pc = "acquire"
    /\ sp[call[c].on].lock = "free"
    /\ sp' = [sp EXCEPT ![call[c].on].lock = c]
    /\ call' = [call EXCEPT ![c].pc = "locked"]
    /\ UNCHANGED <<pc, status, alt_screen_active, enters, exits, history, turns,
                   spinner, spinner_instance, sig, cls, src, raw, notice, spun, raised>>

\* if self.running: self.running = False; needs_join = True; the lock is left.
StopLocked(c) ==
    /\ InStop(c)
    /\ call[c].pc = "locked"
    /\ sp' = [sp EXCEPT ![call[c].on].running = FALSE, ![call[c].on].lock = "free"]
    /\ call' = [call EXCEPT ![c].pc = "unlocked",
                            ![c].needs_join = sp[call[c].on].running]
    /\ UNCHANGED <<pc, status, alt_screen_active, enters, exits, history, turns,
                   spinner, spinner_instance, sig, cls, src, raw, notice, spun, raised>>

\* if needs_join and self.thread:
StopCheck(c) ==
    /\ InStop(c)
    /\ call[c].pc = "unlocked"
    /\ call' = [call EXCEPT ![c].pc =
                  IF call[c].needs_join /\ sp[call[c].on].thread THEN "join" ELSE "ret"]
    /\ UNCHANGED <<pc, status, alt_screen_active, enters, exits, history, turns,
                   spinner, spinner_instance, sp, sig, cls, src, raw, notice, spun, raised>>

\* self.thread.join(timeout=0.5); self.thread = None.  The join returns when
\* the thread has ended, or after the timeout with the thread still alive.
JoinDone(c) ==
    /\ call' = [call EXCEPT ![c].pc = "ret"]
    /\ IF sp[call[c].on].thread
       THEN /\ sp' = [sp EXCEPT ![call[c].on].joins = @ + 1, ![call[c].on].thread = FALSE]
            /\ raised' = raised
       ELSE /\ sp' = sp
            /\ raised' = TRUE
    /\ UNCHANGED <<pc, status, alt_screen_active, enters, exits, history, turns,
                   spinner, spinner_instance, sig, cls, src, raw, notice, spun>>

StopJoin(c) ==
    /\ InStop(c)
    /\ call[c].pc = "join"
    /\ ~Alive(call[c].on)
    /\ JoinDone(c)

StopJoinTimeout(c) ==
    /\ InStop(c)
    /\ call[c].pc = "join"
    /\ Alive(call[c].on)
    /\ JoinDone(c)

\* ----------------------------------------------------------- Spinner._spin

\* with self.lock: if not self.running: break
SpinCheck(k) ==
    /\ status = "running"
    /\ sp[k].tpc = "check"
    /\ sp[k].lock = "free"
    /\ sp' = [sp EXCEPT ![k].tpc = IF sp[k].running THEN "write" ELSE "erase"]
    /\ UNCHANGED <<pc, status, alt_screen_active, enters, exits, history, turns,
                   spinner, spinner_instance, call, sig, cls, src, raw, notice,
                   spun, raised>>

\* A frame is written, then the sleep.
SpinWrite(k) ==
    /\ status = "running"
    /\ sp[k].tpc = "write"
    /\ sp' = [sp EXCEPT ![k].tpc = "check"]
    /\ spun' = (spun \/ sp[k].wrote)
    /\ UNCHANGED <<pc, status, alt_screen_active, enters, exits, history, turns,
                   spinner, spinner_instance, call, sig, cls, src, raw, notice, raised>>

\* The status line is erased; the thread ends.
SpinErase(k) ==
    /\ status = "running"
    /\ sp[k].tpc = "erase"
    /\ sp' = [sp EXCEPT ![k].tpc = "dead", ![k].erases = @ + 1]
    /\ spun' = (spun \/ sp[k].wrote)
    /\ UNCHANGED <<pc, status, alt_screen_active, enters, exits, history, turns,
                   spinner, spinner_instance, call, sig, cls, src, raw, notice, raised>>

\* ---------------------------------------------------------------- main_cli

\* load(args.model) returns.
LoadModel ==
    /\ MainRuns
    /\ pc = "load"
    /\ pc' = "enter"
    /\ UNCHANGED <<status, alt_screen_active, enters, exits, history, turns, spinner,
                   spinner_instance, sp, call, sig, cls, src, raw, notice, spun, raised>>

\* load(args.model) raises: the error is printed, sys.exit(1).
LoadFault ==
    /\ MainRuns
    /\ pc = "load"
    /\ Terminate("exit_1", sp)
    /\ UNCHANGED <<enters, history, turns, spinner, spinner_instance, call, sig,
                   cls, src, raw, notice, spun, raised>>

\* enter_alternate_screen(): if not alt_screen_active: the enter sequence is
\* printed.  SIGINT may be handled before the flag is set.
EnterAlternateScreen ==
    /\ MainRuns
    /\ pc = "enter"
    /\ enters' = IF alt_screen_active THEN enters ELSE enters + 1
    /\ pc' = "enter_flag"
    /\ UNCHANGED <<status, alt_screen_active, exits, history, turns, spinner,
                   spinner_instance, sp, call, sig, cls, src, raw, notice, spun,
                   raised>>

\* enter_alternate_screen(): alt_screen_active = True; then the header.
EnterSetActive ==
    /\ MainRuns
    /\ pc = "enter_flag"
    /\ alt_screen_active' = TRUE
    /\ pc' = "prompt"
    /\ UNCHANGED <<status, enters, exits, history, turns, spinner, spinner_instance,
                   sp, call, sig, cls, src, raw, notice, spun, raised>>

\* ReadInput, were the line compared with "/clear" as typed.
ReadInput_ExactClear(lines, maxTurns) ==
    /\ MainRuns
    /\ pc = "prompt"
    /\ \E line \in lines :
         IF Lower(line) \in {<<"q">>, <<"q", "u", "i", "t">>}
         THEN /\ pc' = "exiting"
              /\ UNCHANGED <<history, turns>>
         ELSE IF line = <<"/", "c", "l", "e", "a", "r">>
         THEN /\ history' = <<>>
              /\ UNCHANGED <<pc, turns>>
         ELSE IF Strip(line) = <<>>
         THEN UNCHANGED <<pc, history, turns>>
         ELSE /\ turns < maxTurns
              /\ history' = Append(history, [role |-> "user", content |-> line])
              /\ turns' = turns + 1
              /\ pc' = "format"
    /\ UNCHANGED <<status, alt_screen_active, enters, exits, spinner, spinner_instance,
                   sp, call, sig, cls, src, raw, notice, spun, raised>>

\* input(">> ") returns a line: quit, /clear, a blank line, or a user turn.
ReadInput(lines, maxTurns) ==
    /\ MainRuns
    /\ pc = "prompt"
    /\ \E line \in lines :
         IF Lower(line) \in {<<"q">>, <<"q", "u", "i", "t">>}
         THEN /\ pc' = "exiting"
              /\ UNCHANGED <<history, turns>>
         ELSE IF Lower(Strip(line)) = <<"/", "c", "l", "e", "a", "r">>
         THEN /\ history' = <<>>
              /\ UNCHANGED <<pc, turns>>
         ELSE IF Strip(line) = <<>>
         THEN UNCHANGED <<pc, history, turns>>
         ELSE /\ turns < maxTurns
              /\ history' = Append(history, [role |-> "user", content |-> line])
              /\ turns' = turns + 1
              /\ pc' = "format"
    /\ UNCHANGED <<status, alt_screen_active, enters, exits, spinner, spinner_instance,
                   sp, call, sig, cls, src, raw, notice, spun, raised>>

\* input(">> ") raises EOFError.
ReadEOF ==
    /\ MainRuns
    /\ pc = "prompt"
    /\ pc' = "exiting"
    /\ UNCHANGED <<status, alt_screen_active, enters, exits, history, turns, spinner,
                   spinner_instance, sp, call, sig, cls, src, raw, notice, spun, raised>>

\* tokenizer.apply_chat_template(history, ...) returns.
FormatPrompt ==
    /\ MainRuns
    /\ pc = "format"
    /\ pc' = "encode"
    /\ UNCHANGED <<status, alt_screen_active, enters, exits, history, turns, spinner,
                   spinner_instance, sp, call, sig, cls, src, raw, notice, spun, raised>>

\* FormatFault, were the user turn left in the history.
FormatFault_NoPop ==
    /\ MainRuns
    /\ pc = "format"
    /\ pc' = "prompt"
    /\ UNCHANGED <<status, alt_screen_active, enters, exits, history, turns, spinner,
                   spinner_instance, sp, call, sig, cls, src, raw, notice, spun, raised>>

\* apply_chat_template raises: history.pop(); continue.
FormatFault ==
    /\ MainRuns
    /\ pc = "format"
    /\ history' = SubSeq(history, 1, Len(history) - 1)
    /\ pc' = "prompt"
    /\ UNCHANGED <<status, alt_screen_active, enters, exits, turns, spinner,
                   spinner_instance, sp, call, sig, cls, src, raw, notice, spun, raised>>

\* prompt = mx.array(tokenizer.encode(full_prompt)); spinner = Spinner();
\* spinner_instance = spinner
CreateSpinner ==
    /\ MainRuns
    /\ pc = "encode"
    /\ spinner' = spinner + 1
    /\ spinner_instance' = spinner + 1
    /\ sp' = [sp EXCEPT ![spinner + 1] = NewSpinner]
    /\ pc' = "start"
    /\ UNCHANGED <<status, alt_screen_active, enters, exits, history, turns, call,
                   sig, cls, src, raw, notice, spun, raised>>

\* tokenizer.encode raises outside any try: the fault ends the process.
UncaughtFault ==
    /\ MainRuns
    /\ pc = "encode"
    /\ Terminate("fault", sp)
    /\ UNCHANGED <<enters, history, turns, spinner, spinner_instance, call, sig,
                   cls, src, raw, notice, spun, raised>>

\* spinner.start(): with self.lock: entered once the lock is free.
StartAcquire ==
    /\ MainRuns
    /\ pc = "start"
    /\ sp[spinner].lock = "free"
    /\ sp' = [sp EXCEPT ![spinner].lock = "main"]
    /\ pc' = "start_locked"
    /\ UNCHANGED <<status, alt_screen_active, enters, exits, history, turns, spinner,
                   spinner_instance, call, sig, cls, src, raw, notice, spun, raised>>

\* if not self.running: self.running = True; the thread is made and started;
\* the lock is left.
StartLocked ==
    /\ MainRuns
    /\ pc = "start_locked"
    /\ sp' = [sp EXCEPT ![spinner] =
                IF sp[spinner].running
                THEN [@ EXCEPT !.lock = "free"]
                ELSE [@ EXCEPT !.lock = "free", !.running = TRUE,
                               !.thread = TRUE, !.tpc = "check"]]
    /\ pc' = "reset"
    /\ UNCHANGED <<status, alt_screen_active, enters, exits, history, turns, spinner,
                   spinner_instance, call, sig, cls, src, raw, notice, spun, raised>>

\* ResetTurn, were the state left as the turn before left it.
ResetTurn_KeepState ==
    /\ MainRuns
    /\ pc = "reset"
    /\ cls' = [NewTurn EXCEPT !.state = cls.state]
    /\ raw' = <<>>
    /\ notice' = "none"
    /\ pc' = "open"
    /\ UNCHANGED <<status, alt_screen_active, enters, exits, history, turns, spinner,
                   spinner_instance, sp, call, sig, src, spun, raised>>

\* state = "thinking"; buffer = ""; assistant_full_response_text = "";
\* printed_something = False
ResetTurn ==
    /\ MainRuns
    /\ pc = "reset"
    /\ cls' = NewTurn
    /\ raw' = <<>>
    /\ notice' = "none"
    /\ pc' = "open"
    /\ UNCHANGED <<status, alt_screen_active, enters, exits, history, turns, spinner,
                   spinner_instance, sp, call, sig, src, spun, raised>>

\* make_sampler(...); stream_generate(...): the generator of this turn's text.
OpenSource(texts) ==
    /\ MainRuns
    /\ pc = "open"
    /\ \E t \in texts : src' = t
    /\ pc' = "stream"
    /\ UNCHANGED <<status, alt_screen_active, enters, exits, history, turns, spinner,
                   spinner_instance, sp, call, sig, cls, raw, notice, spun, raised>>

\* The generator yields a fragment (any prefix of what it has yet to yield,
\* the empty one too) and the loop body runs on it.  When the tag completes
\* in the buffer the body goes on in spinner.stop(), then in TagFound.
NextFragment ==
    /\ MainRuns
    /\ pc = "stream"
    /\ \E n \in 0..Len(src) :
         LET frag == SubSeq(src, 1, n)
             a == Accumulate(cls, frag)
             b == ThinkingAppend(a, frag)
             tag == a.state = "thinking" /\ HasTag(b.buffer)
             c == IF tag THEN b ELSE Iteration(cls, frag)
         IN  /\ src' = Drop(src, n)
             /\ raw' = raw \o frag
             /\ cls' = c
             /\ IF tag
                THEN /\ pc' = "tag_stop"
                     /\ BeginStop("main", spinner)
                ELSE /\ pc' = pc
                     /\ call' = call
                     /\ sp' = [sp EXCEPT ![spinner].wrote = @ \/ c.out # <<>>]
    /\ UNCHANGED <<status, alt_screen_active, enters, exits, history, turns, spinner,
                   spinner_instance, sig, notice, spun, raised>>

\* spinner.stop() has returned at the tag: spinner_instance = None; the
\* remainder goes to the buffer; state = "stripping_newlines".
TagFound ==
    /\ MainRuns
    /\ pc = "tag_stop"
    /\ call["main"].pc = "ret"
    /\ call' = [call EXCEPT !["main"] = NoCall]
    /\ spinner_instance' = 0
    /\ cls' = TagTransition(cls)
    /\ pc' = "stream"
    /\ UNCHANGED <<status, alt_screen_active, enters, exits, history, turns, spinner,
                   sp, sig, src, raw, notice, spun, raised>>

\* The generator is exhausted: the loop ends, spinner.stop() is called.
EndOfGeneration ==
    /\ MainRuns
    /\ pc = "stream"
    /\ src = <<>>
    /\ pc' = "eos_stop"
    /\ BeginStop("main", spinner)
    /\ UNCHANGED <<status, alt_screen_active, enters, exits, history, turns, spinner,
                   spinner_instance, sig, cls, src, raw, notice, spun, raised>>

\* AfterStream, were the handle of the signal handler left as it is.
AfterStream_KeepHandle ==
    /\ MainRuns
    /\ pc = "eos_stop"
    /\ call["main"].pc = "ret"
    /\ call' = [call EXCEPT !["main"] = NoCall]
    /\ history' = Append(history, [role |-> "assistant", content |-> cls.acc])
    /\ notice' = EndNotice(cls)
    /\ cls' = EndOfStream(cls)
    /\ sp' = [sp EXCEPT ![spinner].wrote = TRUE]
    /\ pc' = "prompt"
    /\ UNCHANGED <<status, alt_screen_active, enters, exits, turns, spinner,
                   spinner_instance, sig, src, raw, spun, raised>>

\* spinner.stop() has returned after the loop: spinner_instance = None; the
\* assistant turn is appended; the end-of-stream output is printed.
AfterStream ==
    /\ MainRuns
    /\ pc = "eos_stop"
    /\ call["main"].pc = "ret"
    /\ call' = [call EXCEPT !["main"] = NoCall]
    /\ spinner_instance' = 0
    /\ history' = Append(history, [role |-> "assistant", content |-> cls.acc])
    /\ notice' = EndNotice(cls)
    /\ cls' = EndOfStream(cls)
    /\ sp' = [sp EXCEPT ![spinner].wrote = TRUE]
    /\ pc' = "prompt"
    /\ UNCHANGED <<status, alt_screen_active, enters, exits, turns, spinner, sig,
                   src, raw, spun, raised>>

\* make_sampler, stream_generate or the generator raises inside the try:
\* the except block begins with spinner.stop().
StreamFault ==
    /\ MainRuns
    /\ pc \in {"open", "stream"}
    /\ pc' = "exc_stop"
    /\ BeginStop("main", spinner)
    /\ UNCHANGED <<status, alt_screen_active, enters, exits, history, turns, spinner,
                   spinner_instance, sig, cls, src, raw, notice, spun, raised>>

\* AfterFault, were no turn appended.
AfterFault_NoAppend ==
    /\ MainRuns
    /\ pc = "exc_stop"
    /\ call["main"].pc = "ret"
    /\ call' = [call EXCEPT !["main"] = NoCall]
    /\ spinner_instance' = 0
    /\ notice' = "error"
    /\ pc' = "prompt"
    /\ UNCHANGED <<status, alt_screen_active, enters, exits, history, turns, spinner,
                   sp, sig, cls, src, raw, spun, raised>>

\* AfterFault, were the partial response recorded, not the sentinel.
AfterFault_Partial ==
    /\ MainRuns
    /\ pc = "exc_stop"
    /\ call["main"].pc = "ret"
    /\ call' = [call EXCEPT !["main"] = NoCall]
    /\ spinner_instance' = 0
    /\ history' = Append(history, [role |-> "assistant", content |-> cls.acc])
    /\ notice' = "error"
    /\ pc' = "prompt"
    /\ UNCHANGED <<status, alt_screen_active, enters, exits, turns, spinner, sp, sig,
                   cls, src, raw, spun, raised>>

\* spinner.stop() has returned in the except block: spinner_instance = None;
\* the error is printed; the sentinel turn is appended.
AfterFault ==
    /\ MainRuns
    /\ pc = "exc_stop"
    /\ call["main"].pc = "ret"
    /\ call' = [call EXCEPT !["main"] = NoCall]
    /\ spinner_instance' = 0
    /\ history' = Append(history, [role |-> "assistant", content |-> ErrorSentinel])
    /\ notice' = "error"
    /\ pc' = "prompt"
    /\ UNCHANGED <<status, alt_screen_active, enters, exits, turns, spinner, sp, sig,
                   cls, src, raw, spun, raised>>

\* The loop was left: "Exiting chat." is printed, main_cli returns, the
\* interpreter exits.
ExitChat ==
    /\ MainRuns
    /\ pc = "exiting"
    /\ Terminate("exit_0", sp)
    /\ UNCHANGED <<enters, history, turns, spinner, spinner_instance, call, sig,
                   cls, src, raw, notice, spun, raised>>

\* ----------------------------------------------------------- signal_handler

\* SIGINT is delivered: the handler runs on the main thread, which waits
\* where it was; it prints, and calls spinner_instance.stop() if there is one.
Interrupt ==
    /\ MainRuns
    /\ IF spinner_instance # 0
       THEN /\ sig' = "stop"
            /\ BeginStop("handler", spinner_instance)
       ELSE /\ sig' = "exit"
            /\ UNCHANGED <<call, sp>>
    /\ UNCHANGED <<pc, status, alt_screen_active, enters, exits, history, turns,
                   spinner, spinner_instance, cls, src, raw, notice, spun, raised>>

\* sys.exit(0) in the handler: SystemExit unwinds the main thread, the
\* interpreter exits.
HandlerExit ==
    /\ status = "running"
    /\ \/ sig = "exit"
       \/ sig = "stop" /\ call["handler"].pc = "ret"
    /\ Terminate("exit_0", sp)
    /\ sig' = "exited"
    /\ UNCHANGED <<enters, history, turns, spinner, spinner_instance, call,
                   cls, src, raw, notice, spun, raised>>

\* ------------------------------------------------------------ specifications

Stop(c) ==
    \/ StopAcquire(c)
    \/ StopLocked(c)
    \/ StopCheck(c)
    \/ StopJoin(c)
    \/ StopJoinTimeout(c)

Spin(k) ==
    \/ SpinCheck(k)
    \/ SpinWrite(k)
    \/ SpinErase(k)

Turn ==
    \/ FormatPrompt
    \/ FormatFault
    \/ CreateSpinner
    \/ UncaughtFault
    \/ StartAcquire
    \/ StartLocked
    \/ ResetTurn
    \/ NextFragment
    \/ TagFound
    \/ EndOfGeneration
    \/ AfterStream
    \/ StreamFault
    \/ AfterFault
    \/ Stop("main")
    \/ \E k \in Spinners : Spin(k)

\* The session: any lines, MaxTurns turns, interrupts.
Next ==
    \/ LoadModel
    \/ LoadFault
    \/ EnterAlternateScreen
    \/ EnterSetActive
    \/ ReadInput(Lines, MaxTurns)
    \/ ReadEOF
    \/ OpenSource(SessionTexts)
    \/ Turn
    \/ ExitChat
    \/ Interrupt
    \/ Stop("handler")
    \/ HandlerExit

Spec == Init /\ [][Next]_vars

\* The first line of a session is read.
ReadFirstInput(lines) == turns = 0 /\ ReadInput(lines, MaxTurns)

\* The first turn of a session on every text of Texts, cut into fragments in
\* every way, without interrupts.
NextClassifier ==
    \/ LoadModel
    \/ LoadFault
    \/ EnterAlternateScreen
    \/ EnterSetActive
    \/ ReadFirstInput(ClassifierLines)
    \/ ReadEOF
    \/ OpenSource(Texts)
    \/ Turn
    \/ ExitChat

SpecClassifier == Init /\ [][NextClassifier]_vars

\* -------------------------------------------------------------- properties

\* The stream of the turn ended without fault and the code after the loop ran.
TurnEnded == notice \in {"newline", "stopped_before_tag", "only_newlines", "flush", "nothing"}

\* Every character of s is a line break.
AllNL(s) == \A i \in 1..Len(s) : s[i] = NL

\* shown is full with a prefix of line breaks removed.
NLStripped(full, shown) ==
    \E k \in 0..Len(full) : AllNL(SubSeq(full, 1, k)) /\ shown = Drop(full, k)

\* What the turn shows when text is fed as one fragment.
OneShot(text) == EndOfStream(Iteration(NewTurn, text))

\* C1: split-invariance.  When the fragments of a turn, concatenated, hold
\* the tag exactly once, the text the turn has shown at its end (the streamed
\* text and the flush) is the text shown when the concatenation is fed as a
\* single fragment.
C1_SplitInvariance ==
    (TurnEnded /\ Cardinality(Occurrences(raw)) = 1) => cls.out = OneShot(raw).out

\* C2 as stated: nothing is shown while the state is thinking, and at the end
\* of the turn the text shown is what follows the first tag in the
\* concatenation of the fragments as the source yielded them, less a prefix
\* of line breaks.
C2_Original ==
    /\ cls.state = "thinking" => cls.out = <<>>
    /\ (TurnEnded /\ HasTag(raw)) => NLStripped(AfterTag(raw), cls.out)

\* C2, amended: nothing is shown while the state is thinking; past the tag,
\* what follows the first tag in the concatenation of the fragments, each
\* U+FFFD replaced by "?", is some line breaks, then the text shown so far,
\* then the buffer; at the end of the turn it is some line breaks, then the
\* text shown.
C2_HiddenReasoning ==
    /\ cls.state = "thinking" => cls.out = <<>>
    /\ (cls.state # "thinking" /\ ~TurnEnded) =>
          NLStripped(AfterTag(Replace(raw)), cls.out \o cls.buffer)
    /\ (TurnEnded /\ HasTag(raw)) => NLStripped(AfterTag(Replace(raw)), cls.out)
    /\ (TurnEnded /\ ~HasTag(raw)) => cls.out = <<>>

\* A turn with hidden text before the tag and a U+FFFD after it ended, a line
\* break was stripped and text was shown.
C2_Witness ==
    /\ TurnEnded
    /\ HasTag(raw)
    /\ Find(raw) > 1
    /\ AfterTag(raw) # Replace(AfterTag(raw))
    /\ cls.out # <<>>
    /\ Len(cls.out) < Len(AfterTag(raw))

\* C3: when line breaks and then other text follow the tag, the text the
\* turn has shown at its end does not begin with a line break.
C3_LeadingLineBreaksStripped ==
    (TurnEnded /\ HasTag(raw) /\ ~AllNL(AfterTag(raw))) =>
        (cls.out = <<>> \/ cls.out[1] # NL)

\* C7 as stated: the accumulated response is the concatenation of the
\* fragments as the source yielded them, and the assistant turn appended
\* after the stream holds that concatenation.
C7_Original ==
    /\ [](cls.acc = raw)
    /\ [][(notice = "none" /\ notice' \notin {"none", "error"}) =>
            history' = Append(history, [role |-> "assistant", content |-> raw])]_vars

\* C7, amended: the accumulated response is the concatenation of the
\* fragments the source yielded, each U+FFFD in them replaced by "?",
\* whatever the state and whatever was shown; the assistant turn appended
\* after a stream that ended without fault holds exactly that text.
C7_AccumulatedRaw ==
    /\ [](cls.acc = Replace(raw))
    /\ [][(notice = "none" /\ notice' \notin {"none", "error"}) =>
            history' = Append(history, [role |-> "assistant", content |-> Replace(raw)])]_vars

\* A turn whose fragments held a U+FFFD ended, hidden text and shown text in
\* it, and its assistant turn is the last of the history.
C7_Witness ==
    /\ TurnEnded
    /\ raw # Replace(raw)
    /\ cls.out # <<>>
    /\ Find(raw) > 1
    /\ history # <<>>
    /\ history[Len(history)] = [role |-> "assistant", content |-> cls.acc]

\* C8: while the concatenation of the turn's fragments holds no tag nothing
\* is shown and the state is thinking; when such a stream ends (the empty
\* one too) the output after the loop is the "stopped before the tag" notice.
C8_NoDelimiter ==
    /\ ~HasTag(raw) => (cls.out = <<>> /\ cls.state = "thinking" /\ ~cls.printed)
    /\ (TurnEnded /\ ~HasTag(raw)) => notice = "stopped_before_tag"

\* A stream of some text without the tag ended.
C8_Witness == TurnEnded /\ ~HasTag(raw) /\ raw # <<>>

\* C9: when the stream ends in stripping_newlines with an empty buffer,
\* nothing but line breaks followed the tag, nothing was shown, and the
\* output after the loop is the "ended with newlines" notice.
C9_OnlyBlankLines ==
    (TurnEnded /\ cls.state = "stripping_newlines" /\ cls.buffer = <<>>) =>
        /\ cls.out = <<>>
        /\ notice = "only_newlines"
        /\ AllNL(AfterTag(raw))

\* A stream ended in stripping_newlines, the line breaks after the tag
\* stripped.
C9_Witness ==
    /\ TurnEnded
    /\ cls.state = "stripping_newlines"
    /\ cls.buffer = <<>>
    /\ AfterTag(raw) # <<>>

\* C10: when the stream ends in stripping_newlines with text in the buffer,
\* the buffer is what the turn has shown, written once and as it is (all
\* that followed the tag, its leading line breaks too), and the output after
\* the loop is the flush, not a notice.
C10_FlushOnce ==
    (TurnEnded /\ cls.state = "stripping_newlines" /\ cls.buffer # <<>>) =>
        /\ cls.out = cls.buffer
        /\ cls.out = AfterTag(Replace(raw))
        /\ notice = "flush"

\* A stream ended in stripping_newlines with a buffer that begins with a
\* line break.
C10_Witness ==
    /\ TurnEnded
    /\ cls.state = "stripping_newlines"
    /\ cls.buffer # <<>>
    /\ cls.buffer[1] = NL

\* The SIGINT handler can take a step: a step of its stop() call, or its
\* sys.exit(0).
HandlerCanStep == ENABLED (Stop("handler") \/ HandlerExit)

\* C4: cancellation.  Once SIGINT is delivered, wherever the main thread was
\* (inside Spinner.start() or Spinner.stop() too), the handler is never
\* stuck: it can take its next step until the process has ended; and when it
\* has ended the process, no Spinner is running, the alternate screen was
\* left through the exit hook, and no spinner thread is alive.
C4_Cancellation ==
    /\ (status = "running" /\ sig # "none") => HandlerCanStep
    /\ sig = "exited" =>
          /\ status = "exit_0"
          /\ ~alt_screen_active
          /\ exits = enters
          /\ \A k \in Spinners : ~sp[k].running /\ ~Alive(k)

\* C5: ordering.  A turn that has written visible text or its end-of-stream
\* output has its Spinner stopped, and no spinner thread writes a frame or
\* the erase sequence after its turn's first visible text or end-of-stream
\* output.
C5_Ordering ==
    /\ \A k \in Spinners : sp[k].wrote => ~sp[k].running
    /\ ~spun

\* No step of a stop() call on Spinner k and no step of its thread can be
\* taken.
Settled(k) ==
    /\ ~ENABLED Spin(k)
    /\ \A c \in Callers : call[c].on = k => ~ENABLED Stop(c)

\* C6: two stop() calls on a started Spinner, one after the other on the main
\* path or the second from the handler while the first is in progress, write
\* the erase sequence at most once, join at most once and do not raise; and
\* once they and the thread can do no more while the process runs, the erase
\* sequence was written exactly once.
C6_StopTwice ==
    \A k \in Spinners :
        (sp[k].tpc # "unborn" /\ sp[k].stops >= 2) =>
            /\ sp[k].erases <= 1
            /\ sp[k].joins <= 1
            /\ ~raised
            /\ (status = "running" /\ Settled(k)) => sp[k].erases = 1

\* C11: terminal restoration.  When the process has ended, by the quit
\* command, the end of input, an interrupt, an uncaught fault or a fault at
\* startup, the alternate screen is not active: the flag is down and every
\* enter sequence written was followed by an exit sequence; the enter
\* sequence is written at most once, and the exit sequence only after it.
C11_TerminalRestored ==
    /\ enters <= 1
    /\ exits <= enters
    /\ status # "running" => (~alt_screen_active /\ exits = enters)

\* The place of a classifier state in the order thinking,
\* stripping_newlines, streaming.
Rank(st) ==
    CASE st = "thinking" -> 0
      [] st = "stripping_newlines" -> 1
      [] st = "streaming" -> 2

\* C12: the classifier state is monotone within a turn.  When the source of
\* a turn is about to be opened, whatever the turn before left, the state is
\* thinking, the buffer is empty and the accumulated response is empty; and
\* every step but the reset of a new turn leaves the state where it is or
\* moves it to the next one in the order, so it never goes back and
\* streaming is never reached from thinking in one step.
C12_Monotone ==
    /\ [](pc = "open" =>
            (cls.state = "thinking" /\ cls.buffer = <<>> /\ cls.acc = <<>>))
    /\ [][pc # "reset" =>
            /\ Rank(cls'.state) >= Rank(cls.state)
            /\ Rank(cls'.state) <= Rank(cls.state) + 1]_vars

\* The second turn of a session is streaming, after a first turn whose
\* response held the tag.
C12_Witness ==
    /\ turns = 2
    /\ pc = "stream"
    /\ cls.state = "streaming"
    /\ Len(history) = 3
    /\ HasTag(history[2].content)

\* C13: a format fault is recoverable without side effects.  The step from
\* the prompt to the formatting appends one user turn to the history; the
\* step from the formatting back to the prompt (the fault) removes that user
\* turn, so the history is what it was before the line was read, and it
\* makes no Spinner, starts none, opens no source and leaves the classifier
\* and the process as they are.
C13_FormatFaultRollsBack ==
    /\ [][(pc = "prompt" /\ pc' = "format") =>
            \E line \in Lines :
                history' = Append(history, [role |-> "user", content |-> line])]_vars
    /\ [][(pc = "format" /\ pc' = "prompt") =>
            /\ history # <<>>
            /\ history[Len(history)].role = "user"
            /\ history = Append(history', history[Len(history)])
            /\ status' = "running"
            /\ UNCHANGED <<spinner, spinner_instance, sp, call, cls, src, raw>>]_vars

\* The loop is back at the prompt, two lines accepted and one Spinner made:
\* one line's formatting failed, and the history holds the other's turn.
C13_Witness ==
    /\ pc = "prompt"
    /\ status = "running"
    /\ turns = 2
    /\ spinner = 1
    /\ Len(history) = 2
    /\ history[2].role = "assistant"

\* The main thread is in a turn: past the append of the user turn and not
\* yet past the append of the assistant turn.
InTurn ==
    pc \in {"format", "encode", "start", "start_locked", "reset", "open",
            "stream", "tag_stop", "eos_stop", "exc_stop"}

\* C14: a stream fault is recoverable.  While a turn is in progress the
\* history ends with its user turn, so no partial response is in it; the
\* except block, unless a SIGINT handler has taken the main thread, can
\* always take its next step; and the step that leaves it with the process
\* running appends exactly the sentinel assistant turn, without raising,
\* with the turn's Spinner not running and the handle cleared, and goes
\* back to the prompt.
C14_StreamFaultRecovers ==
    /\ [](InTurn => (history # <<>> /\ history[Len(history)].role = "user"))
    /\ []((pc = "exc_stop" /\ MainRuns) => ENABLED (Stop("main") \/ AfterFault))
    /\ [][(pc = "exc_stop" /\ pc' # "exc_stop" /\ status' = "running") =>
            /\ history' =
                  Append(history, [role |-> "assistant", content |-> ErrorSentinel])
            /\ pc' = "prompt"
            /\ ~sp'[spinner].running
            /\ spinner_instance' = 0
            /\ ~raised']_vars

\* A first turn ended in a fault and the session went on: the second turn
\* had text streaming when it ended in a fault too, and the loop is back at
\* the prompt with a sentinel after each user turn.
C14_Witness ==
    /\ pc = "prompt"
    /\ status = "running"
    /\ notice = "error"
    /\ cls.state = "streaming"
    /\ cls.out # <<>>
    /\ Len(history) = 4
    /\ history[2].content = ErrorSentinel
    /\ history[4].content = ErrorSentinel

\* The lines of Lines that are the reset command.
ClearLines == {line \in Lines : Lower(Strip(line)) = <<"/", "c", "l", "e", "a", "r">>}

\* The lines of Lines that are accepted as a user turn.
TurnLines ==
    {line \in Lines : /\ Lower(line) \notin {<<"q">>, <<"q", "u", "i", "t">>}
                      /\ line \notin ClearLines
                      /\ Strip(line) # <<>>}

\* C15: the history is append-only but for the reset and the rollback.  A
\* step that changes the history appends one turn to it, or is the reset at
\* the prompt and empties it, or is the format fault and removes its last
\* turn.  A step that reads the reset command leaves the history empty
\* whatever it held; and a step that reads a user turn when the history is
\* empty goes to the formatting with a history of that user turn alone.
C15_ResetAndAppendOnly ==
    /\ [][history' # history =>
            \/ /\ Len(history') = Len(history) + 1
               /\ SubSeq(history', 1, Len(history)) = history
            \/ /\ pc = "prompt" /\ pc' = "prompt"
               /\ history' = <<>>
            \/ /\ pc = "format" /\ pc' = "prompt"
               /\ history = Append(history', history[Len(history)])]_vars
    /\ [][\A line \in ClearLines :
              ReadInput({line}, MaxTurns) => history' = <<>>]_vars
    /\ [][\A line \in TurnLines :
              (history = <<>> /\ ReadInput({line}, MaxTurns)) =>
                  /\ pc' = "format"
                  /\ history' = <<[role |-> "user", content |-> line]>>]_vars

\* A second line is about to be formatted with a history of that line alone,
\* after a first turn that made its Spinner: the reset came between them.
C15_Witness ==
    /\ pc = "format"
    /\ status = "running"
    /\ turns = 2
    /\ spinner = 1
    /\ Len(history) = 1

\* C16: at most one spinner thread is alive at any moment of the session,
\* after a stop() whose join returned on its timeout too.
C16_OneThread == Cardinality({k \in Spinners : Alive(k)}) <= 1

\* C17: whenever the loop waits at the prompt, the handle of the signal
\* handler is None and no Spinner has its running flag set.
C17_PromptIdle ==
    (pc = "prompt" /\ status = "running") =>
        /\ spinner_instance = 0
        /\ \A k \in Spinners : ~sp[k].running

\* The loop waits at the prompt after a turn that ended without fault and a
\* turn that ended in a fault, each with its own Spinner.
C17_Witness ==
    /\ pc = "prompt"
    /\ status = "running"
    /\ sig = "none"
    /\ spinner = 2
    /\ notice = "error"
    /\ Len(history) = 4
    /\ history[2].content # ErrorSentinel

\* The turns of h are a user turn, an assistant turn, a user turn, ...
Alternates(h) ==
    \A i \in 1..Len(h) :
        h[i].role = (IF i % 2 = 1 THEN "user" ELSE "assistant")

\* C18: the history alternates user and assistant turns from a user turn on;
\* whenever the loop is at the prompt its length is even, each user turn
\* followed by its one assistant turn; and while a turn is in progress its
\* length is odd, the turn's user turn last.
C18_Alternation ==
    /\ Alternates(history)
    /\ (pc = "prompt" /\ status = "running") => Len(history) % 2 = 0
    /\ InTurn => Len(history) % 2 = 1

\* The loop is at the prompt after a turn that ended in a fault and a turn
\* that ended without: a sentinel, then a response in the history.
C18_Witness ==
    /\ pc = "prompt"
    /\ status = "running"
    /\ Len(history) = 4
    /\ history[2].content = ErrorSentinel
    /\ history[4].content # ErrorSentinel
    /\ HasTag(history[4].content)

\* C19: text has been shown during the stream exactly when the state is
\* streaming, and printed_something says so; hence the output after a stream
\* that ended without fault is exactly one of four, decided by the state: the
\* line break (streaming), the "stopped before the tag" notice (thinking),
\* the "ended with newlines" notice (stripping_newlines, empty buffer), the
\* flush (stripping_newlines, text in the buffer); never none of them.
C19_EndOutput ==
    /\ cls.printed <=> cls.state = "streaming"
    /\ notice # "flush" => (cls.out # <<>> <=> cls.state = "streaming")
    /\ notice # "nothing"
    /\ TurnEnded =>
          notice = (IF cls.state = "streaming" THEN "newline"
                    ELSE IF cls.state = "thinking" THEN "stopped_before_tag"
                    ELSE IF cls.buffer = <<>> THEN "only_newlines"
                    ELSE "flush")

\* A stream ended in streaming, hidden text before the tag and two
\* characters or more shown: the output after it is the line break.
C19_Witness ==
    /\ TurnEnded
    /\ notice = "newline"
    /\ cls.state = "streaming"
    /\ Find(raw) > 1
    /\ Len(cls.out) >= 2

\* C20: whatever fragment the source yields next while the state is
\* stripping_newlines or streaming, the buffer is empty once it is processed;
\* the buffer is empty in streaming; and a buffer with text outside thinking
\* is all that followed the tag, left by the fragment that completed the tag
\* and not yet looked at, nothing of it shown before the stream ends.
C20_BufferEmptied ==
    /\ (pc = "stream" /\ cls.state # "thinking") =>
          \A n \in 0..Len(src) : Iteration(cls, SubSeq(src, 1, n)).buffer = <<>>
    /\ cls.state = "streaming" => cls.buffer = <<>>
    /\ (cls.state # "thinking" /\ cls.buffer # <<>>) =>
          /\ cls.buffer = AfterTag(Replace(raw))
          /\ ~cls.printed
          /\ ~TurnEnded => cls.out = <<>>

\* Fragments were processed in stripping_newlines: line breaks followed the
\* tag, the buffer is empty and the source has more to yield.
C20_Witness ==
    /\ pc = "stream"
    /\ cls.state = "stripping_newlines"
    /\ cls.buffer = <<>>
    /\ AfterTag(Replace(raw)) # <<>>
    /\ src # <<>>

====
